---------------------------- MODULE Spec2Model ----------------------------
(***************************************************************************)
(* Model of camoufox-js package management (pkgman.ts, __main__.js):       *)
(* Version ordering, release asset resolution, bounded-retry fetch,        *)
(* archive installation with rollback, path resolution and the updater.    *)
(*                                                                         *)
(* Encoding of strings.  A release string is modelled by the sequence of   *)
(* its dot-separated components (what String.split(".") returns).  A       *)
(* component is an integer: c >= 0 stands for the decimal text of c, and   *)
(* c < 0 stands for a non-numeric text whose first character has the       *)
(* character code -c (-98 is a text such as "beta").  Two release strings  *)
(* are the same string iff their component sequences are the same.         *)
(***************************************************************************)
EXTENDS Integers, Sequences, FiniteSets, TLC

VARIABLES
    ra, rb, rc,     \* SpecOrder / SpecSupported: release strings under comparison
    ord,            \* SpecOrder / SpecSupported: outcome of the last comparison
    rt,             \* SpecRetry: one run of the bounded-retry loop
    feed,           \* the release feed: a sequence of releases, each a sequence of assets
    res,            \* SpecFeed: what the scan of the feed gave
    skipEnv,        \* the environment toggle PLAYWRIGHT_SKIP_BROWSER_DOWNLOAD
    fs,             \* the install directory: its files and its version.json
    task,           \* the fetcher instances and how far their async calls have run
    ret,            \* outcome of the last synchronous entry-point call
    fs0             \* the install directory at the start (never changes)

mainVars == <<skipEnv, fs, task, ret, fs0>>
vars == <<ra, rb, rc, ord, rt, feed, res, skipEnv, fs, task, ret, fs0>>

(***************************************************************************)
(* Bounds of the model.                                                    *)
(***************************************************************************)
MaxParts == 6       \* longest release string, in components
MaxNonZero == 2     \* components of a release string that are not "0"
OrderNonZero == 1   \* the same, for the three strings of SpecOrder
MaxReleases == 2    \* releases in a feed
MaxAssets == 2      \* assets in a release

\* Components release strings are drawn from: "0", "1" and a text like "beta".
OrderComps == {0, 1, -98}
\* Components around the supported range ("99.0", "120.0").
RangeComps == {0, 1, 99, 100, 119, 120, 121, -98}
\* Display strings (the `version` field); NoVersion is an absent field.
NoVersion == "undefined"

\* Values of the variables a specification does not use.
NoOrd == [done |-> FALSE]
NoRetry == [pc |-> "off"]
NoFeed == <<>>
NoRes == [done |-> FALSE]
MainOff == skipEnv = FALSE /\ fs = <<>> /\ task = <<>> /\ ret = <<>> /\ fs0 = <<>>

\* The strings of n components, at most nz of them not "0".
RECURSIVE ReleasesOfLen(_, _, _)
ReleasesOfLen(comps, n, nz) ==
    IF n = 0 THEN {<<>>}
    ELSE {Append(r, 0) : r \in ReleasesOfLen(comps, n - 1, nz)}
         \cup (IF nz = 0 THEN {}
               ELSE {Append(r, c) : r \in ReleasesOfLen(comps, n - 1, nz - 1),
                                    c \in comps \ {0}})

Releases(comps, nz) == UNION {ReleasesOfLen(comps, n, nz) : n \in 1..MaxParts}

(***************************************************************************)
(* class Version                                                           *)
(***************************************************************************)
PAD_LEN == 5

\* Number(x) is NaN exactly for the non-numeric texts; then charCodeAt(0) - 1024.
PartValue(x) == IF x < 0 THEN (-x) - 1024 ELSE x

RECURSIVE PadZeros(_)
PadZeros(parts) == IF Len(parts) < PAD_LEN THEN PadZeros(Append(parts, 0)) ELSE parts

buildSortedRel(release) == PadZeros([i \in 1..Len(release) |-> PartValue(release[i])])

Version(release, version) ==
    [release |-> release, version |-> version, sorted_rel |-> buildSortedRel(release)]

\* `${this.version}-${this.release}`
fullString(v) == <<v.version, "-", v.release>>

\* sorted_rel.join(".") === other.sorted_rel.join(".")
equals(this, other) == this.sorted_rel = other.sorted_rel

\* The loop runs over this.sorted_rel; other.sorted_rel[i] is undefined past the
\* end of other, and both `<` and `>` against undefined are false.
RECURSIVE lessThanFrom(_, _, _)
lessThanFrom(s, o, i) ==
    IF i > Len(s) THEN FALSE
    ELSE IF i > Len(o) THEN lessThanFrom(s, o, i + 1)
    ELSE IF s[i] < o[i] THEN TRUE
    ELSE IF s[i] > o[i] THEN FALSE
    ELSE lessThanFrom(s, o, i + 1)

\* Mutant: the comparison also holds of equal sequences.
lessThanInclusive(this, other) ==
    \/ this.sorted_rel = other.sorted_rel
    \/ lessThanFrom(this.sorted_rel, other.sorted_rel, 1)

lessThan(this, other) == lessThanFrom(this.sorted_rel, other.sorted_rel, 1)

\* CONSTRAINTS.MIN_VERSION / MAX_VERSION: the supported range ("99.0", "120.0").
MIN_VERSION == <<99, 0>>
MAX_VERSION == <<120, 0>>

buildMinMax == <<Version(MIN_VERSION, NoVersion), Version(MAX_VERSION, NoVersion)>>
VERSION_MIN == buildMinMax[1]
VERSION_MAX == buildMinMax[2]

isSupported(this) == lessThan(VERSION_MIN, this) /\ lessThan(this, VERSION_MAX)

(***************************************************************************)
(* Release assets and the scan of the feed.                                *)
(* An asset name is modelled by the parts the pattern                      *)
(*   camoufox-(.+)-(.+)-${OS_NAME}\.${arch}\.zip                           *)
(* looks at: the product, the two captured groups, the OS and architecture *)
(* names and the extension.                                                *)
(***************************************************************************)
OS_NAME == "lin"
PlatformArch == "x86_64"

AssetName(version, release, os, arch) ==
    [product |-> "camoufox", version |-> version, release |-> release,
     os |-> os, arch |-> arch, ext |-> "zip"]

\* The assets feeds are made of: name and browser_download_url.
Asset110 == [name |-> AssetName("135.0.1", <<110, 0>>, "lin", "x86_64"), browser_download_url |-> "url-110"]
Asset100 == [name |-> AssetName("135.0.1", <<100, 0>>, "lin", "x86_64"), browser_download_url |-> "url-100"]
Asset119Mac == [name |-> AssetName("136.0", <<119, 0>>, "mac", "arm64"), browser_download_url |-> "url-119-mac"]
Asset120 == [name |-> AssetName("136.0", <<120, 0>>, "lin", "x86_64"), browser_download_url |-> "url-120"]
AssetPool == {Asset110, Asset100, Asset119Mac, Asset120}

SeqsUpTo(S, n) == UNION {[1..k -> S] : k \in 0..n}
\* The assets of one release have distinct names.
AssetLists ==
    {a \in SeqsUpTo(AssetPool, MaxAssets) :
        \A i, j \in 1..Len(a) : a[i] = a[j] => i = j}
Feeds == SeqsUpTo(AssetLists, MaxReleases)

\* Mutant: the pattern is built without the architecture.
patternMatchesAnyArch(name, os, arch) ==
    name.product = "camoufox" /\ name.os = os /\ name.ext = "zip"

\* asset.name.match(this.pattern)
patternMatches(name, os, arch) ==
    name.product = "camoufox" /\ name.os = os /\ name.arch = arch /\ name.ext = "zip"

NoData == [match |-> FALSE]

\* Mutant: the version of a matching asset is not checked against the range.
checkAssetAnyVersion(asset, os, arch) ==
    IF ~patternMatches(asset.name, os, arch) THEN NoData
    ELSE [match |-> TRUE, version |-> Version(asset.name.release, asset.name.version),
          url |-> asset.browser_download_url]

\* CamoufoxFetcher.checkAsset: null, or [version, asset.browser_download_url].
checkAsset(asset, os, arch) ==
    IF ~patternMatches(asset.name, os, arch) THEN NoData
    ELSE LET version == Version(asset.name.release, asset.name.version)
         IN IF ~isSupported(version) THEN NoData
            ELSE [match |-> TRUE, version |-> version, url |-> asset.browser_download_url]

\* The two nested loops of getAsset over the parsed answer, from release i,
\* asset j on; n counts the assets handed to checkAsset so far.
RECURSIVE scanFrom(_, _, _, _)
scanFrom(releases, i, j, n) ==
    IF i > Len(releases) THEN [found |-> FALSE, examined |-> n]
    ELSE IF j > Len(releases[i]) THEN scanFrom(releases, i + 1, 1, n)
    ELSE LET data == checkAsset(releases[i][j], OS_NAME, PlatformArch)
         IN IF data.match
            THEN [found |-> TRUE, version |-> data.version, url |-> data.url,
                  at |-> <<i, j>>, examined |-> n + 1]
            ELSE scanFrom(releases, i, j + 1, n + 1)

\* Mutant: the scan goes on after a match and keeps the last one.
RECURSIVE scanLastFrom(_, _, _, _)
scanLastFrom(releases, i, j, n) ==
    IF i > Len(releases) THEN [found |-> FALSE, examined |-> n]
    ELSE IF j > Len(releases[i]) THEN scanLastFrom(releases, i + 1, 1, n)
    ELSE LET data == checkAsset(releases[i][j], OS_NAME, PlatformArch)
             rest == scanLastFrom(releases, i, j + 1, n + 1)
         IN IF data.match /\ ~rest.found
            THEN [found |-> TRUE, version |-> data.version, url |-> data.url,
                  at |-> <<i, j>>, examined |-> rest.examined]
            ELSE rest

scanLast(releases) == scanLastFrom(releases, 1, 1, 0)

\* getAsset after a successful answer: the first match, or missingAssetError().
scanReleases(releases) == scanFrom(releases, 1, 1, 0)

(***************************************************************************)
(* SpecFeed: the scan applied to one feed.                                 *)
(***************************************************************************)
InitFeed ==
    /\ ra = <<0>> /\ rb = <<0>> /\ rc = <<0>>
    /\ ord = NoOrd
    /\ rt = NoRetry
    /\ feed \in Feeds
    /\ res = NoRes
    /\ MainOff

ScanFeed ==
    /\ res.done = FALSE
    /\ res' = [done |-> TRUE, out |-> scanReleases(feed)]
    /\ UNCHANGED <<ra, rb, rc, ord, rt, feed, mainVars>>

NextFeed == ScanFeed

SpecFeed == InitFeed /\ [][NextFeed]_vars

\* Positions of a feed, in scan order, and those of its supported matching assets.
Positions(f) == {p \in (1..Len(f)) \X (1..MaxAssets) : p[2] <= Len(f[p[1]])}
Before(p, q) == p[1] < q[1] \/ (p[1] = q[1] /\ p[2] < q[2])
Candidates(f) ==
    {p \in Positions(f) :
        LET a == f[p[1]][p[2]]
        IN /\ a.name.os = OS_NAME /\ a.name.arch = PlatformArch
           /\ LET v == Version(a.name.release, a.name.version)
              IN lessThan(VERSION_MIN, v) /\ lessThan(v, VERSION_MAX)}
VersionAt(f, p) == Version(f[p[1]][p[2]].name.release, f[p[1]][p[2]].name.version)
NewestFirst(f) ==
    \A p \in Candidates(f), q \in Candidates(f) :
        Before(p, q) => ~lessThan(VersionAt(f, p), VersionAt(f, q))

\* C5 as claimed: for every feed, in any order, the result is the greatest by
\* Version order among the supported matching assets, and the scan fails only
\* if there is none.
C5_Newest ==
    res.done =>
        /\ res.out.found <=> Candidates(feed) # {}
        /\ res.out.found =>
              /\ res.out.at \in Candidates(feed)
              /\ \A q \in Candidates(feed) : ~lessThan(res.out.version, VersionAt(feed, q))

\* C5 as amended: the result is the first supported matching asset in feed
\* order, with its own version and URL; it is the greatest of them whenever the
\* feed lists them newest first; the scan fails only if there is none.
C5_FirstMatch ==
    res.done =>
        /\ res.out.found <=> Candidates(feed) # {}
        /\ res.out.found =>
              /\ res.out.at \in Candidates(feed)
              /\ \A q \in Candidates(feed) : ~Before(q, res.out.at)
              /\ res.out.version = VersionAt(feed, res.out.at)
              /\ res.out.url = feed[res.out.at[1]][res.out.at[2]].browser_download_url
              /\ NewestFirst(feed) =>
                    \A q \in Candidates(feed) : ~lessThan(res.out.version, VersionAt(feed, q))

\* A newest-first feed with two candidates behind an asset of another platform.
C5_Witness ==
    /\ res.done
    /\ feed = <<(<<Asset119Mac, Asset110>>), (<<Asset100>>)>>
    /\ res.out.found
    /\ res.out.url = "url-110"

\* C25: the scan examines the assets in feed order (releases as returned,
\* assets in order inside each release), returns the first one that checkAsset
\* accepts and examines none after it: it has examined exactly the assets up
\* to the returned one, all rejected but the last, or every asset of the feed
\* when it returns none.
C25_ScanStopsAtFirst ==
    res.done =>
        IF res.out.found
        THEN /\ res.out.at \in Candidates(feed)
             /\ \A p \in Positions(feed) : Before(p, res.out.at) => p \notin Candidates(feed)
             /\ res.out.examined
                  = Cardinality({p \in Positions(feed) : Before(p, res.out.at)}) + 1
        ELSE /\ Candidates(feed) = {}
             /\ res.out.examined = Cardinality(Positions(feed))

\* The second asset of the first release was returned after two assets were
\* examined; the accepted asset of the second release was not looked at.
C25_Witness ==
    /\ res.done /\ res.out.found
    /\ feed = <<(<<Asset119Mac, Asset100>>), (<<Asset110>>)>>
    /\ res.out.at = <<1, 2>>
    /\ res.out.examined = 2

(***************************************************************************)
(* The bounded-retry loop of webdl and of GitHubDownloader.getAsset.       *)
(*   while (attempts < retries) {                                          *)
(*     try { response = await fetch(url); if (response.ok) break; }        *)
(*     catch (e) { ...; await setTimeout(5e3); }                           *)
(*     attempts++; }                                                       *)
(*   if (!response || !response.ok) throw new Error("... after N ...")     *)
(***************************************************************************)
RETRIES == 5

\* What one request can do: answer with a success status, answer with a
\* non-success status, or fail with a network error (fetch rejects).
Outcomes == {"ok", "status", "neterr"}

NoResponse == [got |-> FALSE, ok |-> FALSE, payload |-> 0]
LoopStart == [attempts |-> 0, response |-> NoResponse, broke |-> FALSE, delays |-> 0]

\* The loop goes on while (attempts < retries) and `break` was not taken.
loopRunning(st, retries) == st.attempts < retries /\ ~st.broke

\* Mutant: a success status does not leave the loop.
fetchAttemptNoBreak(st, outcome, payload) ==
    [attempts |-> st.attempts + 1,
     broke |-> FALSE,
     response |-> IF outcome = "neterr" THEN st.response
                  ELSE [got |-> TRUE, ok |-> outcome = "ok", payload |-> payload],
     delays |-> IF outcome = "neterr" THEN st.delays + 1 ELSE st.delays]

\* One iteration of the loop body; payload is the body of the answer, if any.
fetchAttempt(st, outcome, payload) ==
    IF outcome = "ok"
    THEN [st EXCEPT !.response = [got |-> TRUE, ok |-> TRUE, payload |-> payload],
                    !.broke = TRUE]
    ELSE IF outcome = "status"
    THEN [st EXCEPT !.response = [got |-> TRUE, ok |-> FALSE, payload |-> payload],
                    !.attempts = @ + 1]
    ELSE [st EXCEPT !.delays = @ + 1, !.attempts = @ + 1]

\* if (!response || !response.ok) throw ...
loopFailed(st) == ~st.response.got \/ ~st.response.ok

(***************************************************************************)
(* SpecRetry: one call of the loop with retry count N against a server     *)
(* whose every answer is chosen freely.  The k-th request is answered with *)
(* payload k.                                                              *)
(***************************************************************************)
InitRetry ==
    /\ ra = <<0>> /\ rb = <<0>> /\ rc = <<0>>
    /\ ord = NoOrd
    /\ \E n \in 0..RETRIES :
          rt = [pc |-> "loop", retries |-> n, st |-> LoopStart, outcomes |-> <<>>,
                result |-> 0]
    /\ feed = NoFeed /\ res = NoRes
    /\ MainOff

RetryRequest ==
    /\ rt.pc = "loop"
    /\ loopRunning(rt.st, rt.retries)
    /\ \E o \in Outcomes :
          rt' = [rt EXCEPT !.st = fetchAttempt(rt.st, o, Len(rt.outcomes) + 1),
                           !.outcomes = Append(rt.outcomes, o)]
    /\ UNCHANGED <<ra, rb, rc, ord, feed, res, mainVars>>

RetryReturn ==
    /\ rt.pc = "loop"
    /\ ~loopRunning(rt.st, rt.retries)
    /\ ~loopFailed(rt.st)
    /\ rt' = [rt EXCEPT !.pc = "returned", !.result = rt.st.response.payload]
    /\ UNCHANGED <<ra, rb, rc, ord, feed, res, mainVars>>

RetryRaise ==
    /\ rt.pc = "loop"
    /\ ~loopRunning(rt.st, rt.retries)
    /\ loopFailed(rt.st)
    /\ rt' = [rt EXCEPT !.pc = "raised"]
    /\ UNCHANGED <<ra, rb, rc, ord, feed, res, mainVars>>

NextRetry == RetryRequest \/ RetryReturn \/ RetryRaise

SpecRetry == InitRetry /\ [][NextRetry]_vars

\* C4: when the loop has ended, either the k-th request was the first one
\* answered with a success status, k <= N, exactly k requests were made and the
\* result is the payload of that answer; or no request was answered with a
\* success status, exactly N requests were made and the error was raised.
C4_RetryCount ==
    LET made == Len(rt.outcomes)
        oks == {i \in 1..made : rt.outcomes[i] = "ok"}
    IN /\ rt.pc = "returned" =>
            /\ oks = {made}
            /\ made <= rt.retries
            /\ rt.result = made
       /\ rt.pc = "raised" => oks = {} /\ made = rt.retries
       /\ (rt.pc = "loop" /\ made = rt.retries /\ oks = {}) => ~loopRunning(rt.st, rt.retries)
       /\ (rt.pc = "loop" /\ oks # {}) => ~loopRunning(rt.st, rt.retries)

\* Four failures of both kinds, then a success: five requests, payload 5.
C4_Witness ==
    /\ rt.pc = "returned"
    /\ rt.retries = RETRIES
    /\ rt.outcomes = <<"neterr", "status", "status", "neterr", "ok">>
    /\ rt.result = 5

\* C24: every failed attempt that is followed by another one, whether it
\* failed by a network error or by a non-success status, waits the delay
\* before the next request is sent.
C24_DelayAfterEveryFailure ==
    [][(/\ Len(rt'.outcomes) = Len(rt.outcomes) + 1
        /\ rt'.outcomes[Len(rt'.outcomes)] # "ok"
        /\ loopRunning(rt'.st, rt'.retries))
          => rt'.st.delays = rt.st.delays + 1
      ]_vars

(***************************************************************************)
(* SpecOrder: the comparison applied to three release strings.             *)
(***************************************************************************)
DisplayStrings == {NoVersion, "135.0.1"}

InitOrder ==
    /\ ra \in Releases(OrderComps, OrderNonZero)
    /\ rb \in Releases(OrderComps, OrderNonZero)
    /\ rc \in Releases(OrderComps, OrderNonZero)
    /\ ord = NoOrd
    /\ rt = NoRetry
    /\ feed = NoFeed /\ res = NoRes
    /\ MainOff

\* Builds the three Version objects, with any display strings, and compares them.
Compare ==
    /\ ord.done = FALSE
    /\ \E va \in DisplayStrings, vb \in DisplayStrings, vc \in DisplayStrings :
          LET a == Version(ra, va)
              b == Version(rb, vb)
              c == Version(rc, vc)
          IN ord' = [done |-> TRUE,
                     lt_ab |-> lessThan(a, b), eq_ab |-> equals(a, b),
                     lt_ba |-> lessThan(b, a), lt_bc |-> lessThan(b, c),
                     lt_ac |-> lessThan(a, c)]
    /\ UNCHANGED <<ra, rb, rc, rt, feed, res, mainVars>>

NextOrder == Compare

SpecOrder == InitOrder /\ [][NextOrder]_vars

\* C8: for all release strings a, b, c of any number of components, exactly one
\* of lessThan(a,b), equals(a,b), lessThan(b,a) holds, lessThan is transitive,
\* and the outcome is the one obtained with the display strings absent.
C8_TotalOrder ==
    ord.done =>
        LET a == Version(ra, NoVersion)
            b == Version(rb, NoVersion)
            c == Version(rc, NoVersion)
        IN /\ \/ ord.lt_ab /\ ~ord.eq_ab /\ ~ord.lt_ba
              \/ ~ord.lt_ab /\ ord.eq_ab /\ ~ord.lt_ba
              \/ ~ord.lt_ab /\ ~ord.eq_ab /\ ord.lt_ba
           /\ (ord.lt_ab /\ ord.lt_bc) => ord.lt_ac
           /\ ord.lt_ab = lessThan(a, b)
           /\ ord.eq_ab = equals(a, b)
           /\ ord.lt_ba = lessThan(b, a)

(***************************************************************************)
(* SpecSupported: isSupported applied to one release string.               *)
(***************************************************************************)
InitSupported ==
    /\ ra \in Releases(RangeComps, MaxNonZero)
    /\ rb = MIN_VERSION
    /\ rc = MAX_VERSION
    /\ ord = NoOrd
    /\ rt = NoRetry
    /\ feed = NoFeed /\ res = NoRes
    /\ MainOff

CheckSupported ==
    /\ ord.done = FALSE
    /\ \E va \in DisplayStrings :
          ord' = [done |-> TRUE, supported |-> isSupported(Version(ra, va))]
    /\ UNCHANGED <<ra, rb, rc, rt, feed, res, mainVars>>

NextSupported == CheckSupported

SpecSupported == InitSupported /\ [][NextSupported]_vars

\* Lexicographic order of two integer sequences of the same length.
LexLess(s, o) ==
    \E i \in 1..Len(s) : s[i] < o[i] /\ \A j \in 1..(i - 1) : s[j] = o[j]

\* C9: a release equal (by Version equality) to the minimum or to the maximum
\* of the supported range is not supported, and a release of at most PAD_LEN
\* components is supported iff its padded sequence lies strictly between the
\* padded sequences of the two ends in lexicographic order.
C9_StrictRange ==
    ord.done =>
        LET v == Version(ra, NoVersion)
        IN /\ (equals(v, VERSION_MIN) \/ equals(v, VERSION_MAX)) => ~ord.supported
           /\ Len(ra) <= PAD_LEN =>
                 (ord.supported <=>
                     /\ LexLess(VERSION_MIN.sorted_rel, v.sorted_rel)
                     /\ LexLess(v.sorted_rel, VERSION_MAX.sorted_rel))

\* A release string other than "120.0" that equals the maximum was rejected.
C9_Witness ==
    /\ ord.done
    /\ ra # MAX_VERSION
    /\ equals(Version(ra, NoVersion), VERSION_MAX)
    /\ ~ord.supported

(***************************************************************************)
(* The install directory.  files tells how much of the archive lies in it; *)
(* meta is the content of version.json: <<>> when the file is absent, else *)
(* the one JSON object in it.                                              *)
(***************************************************************************)
NoFile == <<>>
AbsentDir == [exists |-> FALSE, files |-> "none", meta |-> NoFile]
EmptyDir == [exists |-> TRUE, files |-> "none", meta |-> NoFile]
InstalledDir(version, release) ==
    [exists |-> TRUE, files |-> "full", meta |-> <<[version |-> version, release |-> release]>>]

\* fs.readdirSync(dir).length === 0
dirIsEmpty(d) == d.files = "none" /\ d.meta = NoFile

\* Mutant: the directory is reported removed and left in place.
cleanupKeep(d) == [removed |-> d.exists, dir |-> d]

\* CamoufoxFetcher.cleanup: [removed, directory afterwards].
cleanup(d) ==
    IF d.exists THEN [removed |-> TRUE, dir |-> AbsentDir]
    ELSE [removed |-> FALSE, dir |-> d]

NoSel == [set |-> FALSE, version |-> Version(<<0>>, NoVersion), url |-> ""]

\* The getters version and release throw when nothing is selected or the
\* display string is absent; writeFileSync throws when the directory is absent.
\* Mutant: the two fields are written the wrong way round.
setVersionSwapped(d, sel) ==
    IF ~sel.set \/ sel.version.version = NoVersion \/ ~d.exists
    THEN [ok |-> FALSE, dir |-> d]
    ELSE [ok |-> TRUE,
          dir |-> [d EXCEPT !.meta = <<[version |-> sel.version.release,
                                        release |-> <<PartValue(0)>>]>>]]

\* CamoufoxFetcher.setVersion: JSON.stringify({version, release}) into version.json.
setVersion(d, sel) ==
    IF ~sel.set \/ sel.version.version = NoVersion \/ ~d.exists
    THEN [ok |-> FALSE, dir |-> d]
    ELSE [ok |-> TRUE,
          dir |-> [d EXCEPT !.meta = <<[version |-> sel.version.version,
                                        release |-> sel.version.release]>>]]

\* Version.fromPath: FileNotFoundError, or the Version parsed from version.json.
fromPath(d) ==
    IF ~d.exists \/ d.meta = NoFile
    THEN [ok |-> FALSE, version |-> NoSel.version]
    ELSE [ok |-> TRUE, version |-> Version(d.meta[1].release, d.meta[1].version)]

\* Version.isSupportedPath, where fromPath does not throw.
isSupportedPath(d) == isSupported(fromPath(d).version)

\* installedVerStr, where fromPath does not throw.
installedVerStr(d) == fullString(fromPath(d).version)

(***************************************************************************)
(* camoufoxPath(downloadIfMissing): what the synchronous body decides.     *)
(***************************************************************************)
\* Mutant: an unsupported installed version is never fetched again.
camoufoxPathNoRefetch(d, downloadIfMissing) ==
    IF ~d.exists \/ dirIsEmpty(d)
    THEN IF ~downloadIfMissing THEN "raise:NotFound" ELSE "install"
    ELSE IF ~fromPath(d).ok THEN "raise:FileNotFoundError"
    ELSE IF isSupportedPath(d) THEN "return"
    ELSE "raise:UnsupportedVersion"

\* Mutant: downloadIfMissing is not consulted.
camoufoxPathIgnoreFlag(d, downloadIfMissing) ==
    IF ~d.exists \/ dirIsEmpty(d) THEN "install"
    ELSE IF ~fromPath(d).ok THEN "raise:FileNotFoundError"
    ELSE IF isSupportedPath(d) THEN "return"
    ELSE "install"

\* Mutant: the installed version is not checked before installing.
camoufoxPathNoCheck(d, downloadIfMissing) ==
    IF ~d.exists \/ dirIsEmpty(d)
    THEN IF ~downloadIfMissing THEN "raise:NotFound" ELSE "install"
    ELSE IF ~fromPath(d).ok THEN "raise:FileNotFoundError"
    ELSE IF ~downloadIfMissing
         THEN (IF isSupportedPath(d) THEN "return" ELSE "raise:UnsupportedVersion")
         ELSE "install"

\* Mutant: a directory without version.json is taken for a missing install.
camoufoxPathMissingMeta(d, downloadIfMissing) ==
    IF ~d.exists \/ dirIsEmpty(d) \/ ~fromPath(d).ok
    THEN IF ~downloadIfMissing THEN "raise:NotFound" ELSE "install"
    ELSE IF isSupportedPath(d) THEN "return"
    ELSE IF ~downloadIfMissing THEN "raise:UnsupportedVersion" ELSE "install"

camoufoxPath(d, downloadIfMissing) ==
    IF ~d.exists \/ dirIsEmpty(d)
    THEN IF ~downloadIfMissing THEN "raise:NotFound" ELSE "install"
    ELSE IF ~fromPath(d).ok THEN "raise:FileNotFoundError"
    ELSE IF isSupportedPath(d) THEN "return"
    ELSE IF ~downloadIfMissing THEN "raise:UnsupportedVersion" ELSE "install"

(***************************************************************************)
(* CamoufoxUpdate.isUpdateNeeded                                           *)
(***************************************************************************)
NoStr == <<>>

\* Mutant: an update is needed only when nothing is installed.
isUpdateNeededOnlyMissing(skip, currentVerStr, verstr) ==
    IF skip THEN FALSE ELSE currentVerStr = NoStr

isUpdateNeeded(skip, currentVerStr, verstr) ==
    IF skip THEN FALSE
    ELSE currentVerStr = NoStr \/ currentVerStr # verstr

(***************************************************************************)
(* The whole retry loop against a server that answers by a script.         *)
(***************************************************************************)
RECURSIVE runLoopFrom(_, _, _, _)
runLoopFrom(st, script, k, retries) ==
    IF ~loopRunning(st, retries) THEN st
    ELSE runLoopFrom(fetchAttempt(st, script[k], k), script, k + 1, retries)

runLoop(script, retries) == runLoopFrom(LoopStart, script, 1, retries)

\* Servers of Spec: answering at once, answering on the last attempt, never
\* answering with a success status, never reachable.
MainScripts ==
    { <<"ok", "ok", "ok", "ok", "ok">>,
      <<"neterr", "status", "status", "neterr", "ok">>,
      <<"status", "status", "neterr", "status", "status">>,
      <<"neterr", "neterr", "neterr", "neterr", "neterr">> }

(***************************************************************************)
(* Spec: the entry points and the asynchronous calls they start.           *)
(***************************************************************************)
\* Two fetcher instances: the two concurrent callers of one install directory.
Tasks == {1, 2}

FreeTask ==
    [pc |-> "free", kind |-> "none", sel |-> NoSel, cur |-> NoStr, upd |-> "unset",
     cause |-> "none", result |-> "none", err |-> "none", snap |-> AbsentDir,
     installing |-> FALSE, queries |-> 0, fetched |-> FALSE]
\* Fields kept for the properties only: cause (the step that threw), snap (the
\* directory when the call returned or raised), installing (install was
\* called), upd (what isUpdateNeeded answered), queries (feed queries made).

HasFree == \E t \in Tasks : task[t].pc = "free"
FirstFree == CHOOSE t \in Tasks : task[t].pc = "free" /\ \A u \in 1..(t - 1) : task[u].pc # "free"

\* Feeds of Spec: newest first with two candidates, and one without candidate.
FeedTwo == <<(<<Asset119Mac, Asset110>>), (<<Asset100>>)>>
FeedNone == <<(<<Asset120>>)>>
MainFeeds == {FeedTwo, FeedNone}

\* Install directories Spec starts from.
\* Directories left by an unrelated or interrupted process: a part of the
\* files, with and without version.json.
CorruptDir ==
    [exists |-> TRUE, files |-> "partial",
     meta |-> <<[version |-> "135.0.1", release |-> <<110, 0>>]>>]
StrayDir == [exists |-> TRUE, files |-> "partial", meta |-> NoFile]

InitDirs ==
    { AbsentDir, EmptyDir,
      InstalledDir("135.0.1", <<110, 0>>),
      InstalledDir("135.0.1", <<110>>),
      InstalledDir("134.0", <<100, 0>>),
      InstalledDir("130.0", <<98, 0>>),
      [exists |-> TRUE, files |-> "full", meta |-> NoFile],
      CorruptDir, StrayDir }

NoRet == [call |-> "none", result |-> "none", started |-> FALSE, exe |-> FALSE]

Init ==
    /\ ra = <<0>> /\ rb = <<0>> /\ rc = <<0>>
    /\ ord = NoOrd
    /\ rt = NoRetry
    /\ res = NoRes
    /\ feed \in MainFeeds
    /\ skipEnv \in BOOLEAN
    /\ fs \in InitDirs
    /\ fs0 = fs
    /\ task = [t \in Tasks |-> FreeTask]
    /\ ret = NoRet

otherVars == <<ra, rb, rc, ord, rt, res, feed, skipEnv, fs0>>

\* new CamoufoxFetcher() and fetcher.install(paths), up to its first await.
StartInstall(tk) ==
    [tk EXCEPT ![CHOOSE t \in Tasks : tk[t].pc = "free" /\ \A u \in Tasks : u < t => tk[u].pc # "free"] =
        [FreeTask EXCEPT !.pc = "init", !.kind = "install", !.installing = TRUE]]

\* Mutant: a caller that finds an install pending starts no second one.
CallCamoufoxPathLocked ==
    \E dl \in BOOLEAN :
        LET d == camoufoxPath(fs, dl)
            busy == \E t \in Tasks : task[t].pc \notin {"free", "done"}
        IN /\ d = "install" => HasFree
           /\ task' = IF d = "install" /\ ~busy THEN StartInstall(task) ELSE task
           /\ ret' = [call |-> IF dl THEN "camoufoxPath(true)" ELSE "camoufoxPath(false)",
                      result |-> IF d \in {"install", "return"} THEN "returned" ELSE d,
                      started |-> d = "install" /\ ~busy, exe |-> FALSE]
           /\ UNCHANGED <<fs, otherVars>>

\* camoufoxPath(downloadIfMissing) called from outside.
CallCamoufoxPath ==
    \E dl \in BOOLEAN :
        LET d == camoufoxPath(fs, dl)
        IN /\ d = "install" => HasFree
           /\ task' = IF d = "install" THEN StartInstall(task) ELSE task
           /\ ret' = [call |-> IF dl THEN "camoufoxPath(true)" ELSE "camoufoxPath(false)",
                      result |-> IF d \in {"install", "return"} THEN "returned" ELSE d,
                      started |-> d = "install", exe |-> FALSE]
           /\ UNCHANGED <<fs, otherVars>>

\* fs.existsSync(launchPath): the executable is among the extracted files
\* when all are there, and may or may not be among a part of them.
ExeChoices(d) ==
    IF ~d.exists \/ d.files = "none" THEN {FALSE}
    ELSE IF d.files = "full" THEN {TRUE}
    ELSE BOOLEAN

FreeCount == Cardinality({t \in Tasks : task[t].pc = "free"})

\* Mutant: the path is returned without the existsSync check.
LaunchPathNoCheck ==
    \E exe \in ExeChoices(fs) :
        LET d == camoufoxPath(fs, TRUE)
            n == IF d = "install" THEN 1 ELSE 0
        IN /\ FreeCount >= n
           /\ task' = IF n = 1 THEN StartInstall(task) ELSE task
           /\ ret' = [call |-> "launchPath",
                      result |-> IF d \in {"install", "return"} THEN "returned" ELSE d,
                      started |-> n > 0, exe |-> exe]
           /\ UNCHANGED <<fs, otherVars>>

\* launchPath(paths): getPath calls camoufoxPath(true); when the executable
\* is not there, the message of CamoufoxNotInstalled calls camoufoxPath(true)
\* once more, on the same directory, before the throw.
LaunchPath ==
    \E exe \in ExeChoices(fs) :
        LET d == camoufoxPath(fs, TRUE)
            n == IF d # "install" THEN 0 ELSE IF exe THEN 1 ELSE 2
        IN /\ FreeCount >= n
           /\ task' = IF n = 0 THEN task
                      ELSE IF n = 1 THEN StartInstall(task)
                      ELSE StartInstall(StartInstall(task))
           /\ ret' = [call |-> "launchPath",
                      result |-> IF d \notin {"install", "return"} THEN d
                                 ELSE IF exe THEN "returned"
                                 ELSE "raise:CamoufoxNotInstalled",
                      started |-> n > 0, exe |-> exe]
           /\ UNCHANGED <<fs, otherVars>>

\* CamoufoxUpdate.create(paths): the constructor reads the installed version
\* string, then init() is awaited; update() follows (command `fetch`).
CallFetch ==
    /\ HasFree
    /\ task' = [task EXCEPT ![FirstFree] =
                   [FreeTask EXCEPT !.pc = "uinit", !.kind = "update",
                                    !.cur = IF fromPath(fs).ok THEN installedVerStr(fs)
                                            ELSE NoStr]]
    /\ ret' = [call |-> "fetch", result |-> "returned", started |-> TRUE, exe |-> FALSE]
    /\ UNCHANGED <<fs, otherVars>>

Raise(tk, t, cause, err, d) ==
    [tk EXCEPT ![t].pc = "done", ![t].result = "raised", ![t].cause = cause,
               ![t].err = err, ![t].snap = d]

\* Mutant: the selection kept on the instance is not consulted.
FetchLatestNoMemo(t) ==
    /\ task[t].pc \in {"init", "uinit"}
    /\ LET next == IF task[t].pc = "uinit" THEN "update" ELSE "cleanup"
       IN IF FALSE
          THEN task' = [task EXCEPT ![t].pc = next]
          ELSE \E script \in MainScripts :
                  LET st == runLoop(script, RETRIES)
                      out == scanReleases(feed)
                      tk == [task EXCEPT ![t].queries = @ + 1,
                                         ![t].fetched = ~loopFailed(st)]
                  IN IF loopFailed(st)
                     THEN task' = Raise(tk, t, "resolve", "FetchFailed", fs)
                     ELSE IF ~out.found
                     THEN task' = Raise(tk, t, "resolve", "MissingRelease", fs)
                     ELSE task' = [tk EXCEPT ![t].pc = next,
                                             ![t].sel = [set |-> TRUE, version |-> out.version,
                                                         url |-> out.url]]
    /\ UNCHANGED <<fs, ret, otherVars>>

\* Mutant: the old content is removed before the release is resolved.
FetchLatestAfterCleanup(t) ==
    /\ task[t].pc \in {"init", "uinit"}
    /\ LET next == IF task[t].pc = "uinit" THEN "update" ELSE "cleanup"
           d == IF task[t].installing THEN cleanup(fs).dir ELSE fs
       IN /\ fs' = d
          /\ IF task[t].sel.set
             THEN task' = [task EXCEPT ![t].pc = next]
             ELSE \E script \in MainScripts :
                     LET st == runLoop(script, RETRIES)
                         out == scanReleases(feed)
                         tk == [task EXCEPT ![t].queries = @ + 1,
                                            ![t].fetched = ~loopFailed(st)]
                     IN IF loopFailed(st)
                        THEN task' = Raise(tk, t, "resolve", "FetchFailed", d)
                        ELSE IF ~out.found
                        THEN task' = Raise(tk, t, "resolve", "MissingRelease", d)
                        ELSE task' = [tk EXCEPT ![t].pc = next,
                                                ![t].sel = [set |-> TRUE, version |-> out.version,
                                                            url |-> out.url]]
    /\ UNCHANGED <<ret, otherVars>>

\* fetchLatest (from init): nothing when a version is selected already; else
\* getAsset: the retry loop, the scan, and the selection kept on the instance.
FetchLatest(t) ==
    /\ task[t].pc \in {"init", "uinit"}
    /\ LET next == IF task[t].pc = "uinit" THEN "update" ELSE "cleanup"
       IN IF task[t].sel.set
          THEN task' = [task EXCEPT ![t].pc = next]
          ELSE \E script \in MainScripts :
                  LET st == runLoop(script, RETRIES)
                      out == scanReleases(feed)
                      tk == [task EXCEPT ![t].queries = @ + 1,
                                         ![t].fetched = ~loopFailed(st)]
                  IN IF loopFailed(st)
                     THEN task' = Raise(tk, t, "resolve", "FetchFailed", fs)
                     ELSE IF ~out.found
                     THEN task' = Raise(tk, t, "resolve", "MissingRelease", fs)
                     ELSE task' = [tk EXCEPT ![t].pc = next,
                                             ![t].sel = [set |-> TRUE, version |-> out.version,
                                                         url |-> out.url]]
    /\ UNCHANGED <<fs, ret, otherVars>>

\* update(): isUpdateNeeded(), and install(customPaths) when it says so.
Update(t) ==
    /\ task[t].pc = "update"
    /\ LET needed == isUpdateNeeded(skipEnv, task[t].cur, fullString(task[t].sel.version))
       IN IF needed
          THEN task' = [task EXCEPT ![t].upd = "yes", ![t].pc = "init",
                                    ![t].installing = TRUE]
          ELSE task' = [task EXCEPT ![t].upd = "no", ![t].pc = "done",
                                    ![t].result = "returned", ![t].snap = fs]
    /\ UNCHANGED <<fs, ret, otherVars>>

\* await CamoufoxFetcher.cleanup(dir), before the try block.  rmSync may throw,
\* leaving the directory whole or partly removed.
PreCleanup(t) ==
    /\ task[t].pc = "cleanup"
    /\ \/ /\ fs' = cleanup(fs).dir
          /\ task' = [task EXCEPT ![t].pc = "mkdir"]
       \/ /\ fs.exists
          /\ \E d \in {fs, [fs EXCEPT !.files = IF @ = "none" THEN "none" ELSE "partial",
                                      !.meta = NoFile]} :
                /\ fs' = d
                /\ task' = Raise(task, t, "cleanup", "rmSync", d)
    /\ UNCHANGED <<ret, otherVars>>

\* Mutant: the metadata file is written when the directory is created,
\* before the download and the extraction.
MkdirWritesVersion(t) ==
    /\ task[t].pc = "mkdir"
    /\ \/ /\ fs' = setVersion([fs EXCEPT !.exists = TRUE], task[t].sel).dir
          /\ task' = [task EXCEPT ![t].pc = "download"]
       \/ /\ fs' = cleanup(fs).dir
          /\ task' = [task EXCEPT ![t].pc = "rethrow", ![t].cause = "mkdir"]
    /\ UNCHANGED <<ret, otherVars>>

\* mkdirSync(dir, {recursive}), the temporary file, and the call of webdl.  A
\* throw here is caught at once: the catch block runs cleanup before its await.
Mkdir(t) ==
    /\ task[t].pc = "mkdir"
    /\ \/ /\ fs' = [fs EXCEPT !.exists = TRUE]
          /\ task' = [task EXCEPT ![t].pc = "download"]
       \/ /\ fs' = cleanup(fs).dir
          /\ task' = [task EXCEPT ![t].pc = "rethrow", ![t].cause = "mkdir"]
    /\ UNCHANGED <<ret, otherVars>>

\* await webdl(this.url, ..., tempFileStream): the retry loop and the body.
Download(t) ==
    /\ task[t].pc = "download"
    /\ \E script \in MainScripts, bodyOk \in BOOLEAN :
          IF loopFailed(runLoop(script, RETRIES)) \/ ~bodyOk
          THEN task' = [task EXCEPT ![t].pc = "catch", ![t].cause = "download"]
          ELSE task' = [task EXCEPT ![t].pc = "extract"]
    /\ UNCHANGED <<fs, ret, otherVars>>

\* await this.extractZip(tempFilePath, dir): extractAllTo creates the directory
\* when needed; when it throws, it may have written a part of the entries.
Extract(t) ==
    /\ task[t].pc = "extract"
    /\ \/ /\ fs' = [fs EXCEPT !.exists = TRUE, !.files = "full"]
          /\ task' = [task EXCEPT ![t].pc = "setver"]
       \/ /\ fs' \in {fs, [fs EXCEPT !.exists = TRUE,
                                     !.files = IF @ = "full" THEN "full" ELSE "partial"]}
          /\ task' = [task EXCEPT ![t].pc = "catch", ![t].cause = "extract"]
    /\ UNCHANGED <<ret, otherVars>>

\* this.setVersion(dir); chmod -R 755 (OS_NAME is not "win"); install returns.
\* A throw of either is caught at once, as in Mkdir.
SetVersionChmod(t) ==
    /\ task[t].pc = "setver"
    /\ LET w == setVersion(fs, task[t].sel)
       IN \/ /\ w.ok
             /\ fs' = w.dir
             /\ task' = [task EXCEPT ![t].result = "returned", ![t].snap = w.dir,
                                     ![t].pc = IF task[t].kind = "install" THEN "recheck"
                                               ELSE "done"]
          \/ /\ fs' = cleanup(fs).dir
             /\ task' = [task EXCEPT ![t].pc = "rethrow", ![t].cause = "setVersion"]
          \/ /\ w.ok
             /\ fs' = cleanup(w.dir).dir
             /\ task' = [task EXCEPT ![t].pc = "rethrow", ![t].cause = "chmod"]
    /\ UNCHANGED <<ret, otherVars>>

\* catch (e) { ...; await CamoufoxFetcher.cleanup(dir); after a rejected await.
\* The steps that can fail are those of the try block; rmSync of the catch
\* block is taken to succeed.
Rollback(t) ==
    /\ task[t].pc = "catch"
    /\ fs' = cleanup(fs).dir
    /\ task' = [task EXCEPT ![t].pc = "rethrow"]
    /\ UNCHANGED <<ret, otherVars>>

\* throw e; }
Rethrow(t) ==
    /\ task[t].pc = "rethrow"
    /\ task' = Raise(task, t, task[t].cause, task[t].cause, fs)
    /\ UNCHANGED <<fs, ret, otherVars>>

\* .then(() => camoufoxPath(true, paths)) after a successful install.
Recheck(t) ==
    /\ task[t].pc = "recheck"
    /\ LET d == camoufoxPath(fs, TRUE)
           tk == [task EXCEPT ![t].pc = "done"]
       IN /\ d = "install" => \E u \in Tasks : tk[u].pc = "free"
          /\ task' = IF d = "install" THEN StartInstall(tk) ELSE tk
    /\ UNCHANGED <<fs, ret, otherVars>>

Step(t) ==
    \/ FetchLatest(t) \/ Update(t) \/ PreCleanup(t) \/ Mkdir(t) \/ Download(t)
    \/ Extract(t) \/ SetVersionChmod(t) \/ Rollback(t) \/ Rethrow(t) \/ Recheck(t)

Next == CallCamoufoxPath \/ LaunchPath \/ CallFetch \/ \E t \in Tasks : Step(t)

Spec == Init /\ [][Next]_vars

\* The event loop runs every continuation that is ready, and every request
\* ends (fetch resolves or rejects): no started call is left waiting for ever.
LiveSpec == Spec /\ \A t \in Tasks : WF_vars(Step(t))

(***************************************************************************)
(* Properties of install, update and camoufoxPath.                         *)
(***************************************************************************)
TrySteps == {"mkdir", "download", "extract", "setVersion", "chmod"}

\* No install but that of task t was ever started.
Solo(t) == \A u \in Tasks \ {t} : task[u].pc = "free"

Populated(d) == d.exists /\ d.files = "full" /\ d.meta # NoFile

\* What a fetcher selects from the feed of this run.
Selected == scanReleases(feed)

\* C1: after a camoufoxPath(true) call on an absent install directory, with a
\* feed that holds a supported matching asset, either some started call raises
\* (a request or a step failed for good) or, from some moment on for ever, the
\* directory holds the metadata of the selected asset and isUpdateNeeded() of an
\* updater created then is false.
C1Start ==
    /\ ret.call = "camoufoxPath(true)" /\ ret.started
    /\ ~fs0.exists /\ ~fs.exists
    /\ Selected.found
    /\ task[1].pc = "init" /\ task[2].pc = "free"

C1Good ==
    /\ Selected.found
    /\ Populated(fs)
    /\ fs.meta[1].version = Selected.version.version
    /\ fs.meta[1].release = Selected.version.release
    /\ ~isUpdateNeeded(skipEnv, installedVerStr(fs), fullString(Selected.version))

C1_FreshInstall ==
    C1Start ~> ((\E t \in Tasks : task[t].result = "raised") \/ [] C1Good)

\* The install started by the call has returned, nothing raised, and the
\* directory holds the selected release 110.0.
C1_Witness ==
    /\ ~fs0.exists
    /\ task[1].kind = "install" /\ task[1].pc = "done" /\ task[1].result = "returned"
    /\ task[2].pc = "free"
    /\ C1Good
    /\ fs.meta[1].release = <<110, 0>>

\* C2: whichever step fails, a call of install that returned left
\* the directory with the extracted files and the metadata file, and a call
\* that raised left it absent.
C2_AllOrNothing ==
    \A t \in Tasks :
        task[t].installing =>
            /\ task[t].result = "returned" => Populated(task[t].snap)
            /\ task[t].result = "raised" => ~task[t].snap.exists

\* C3: a failure of a step of the try block takes install to its catch block;
\* the catch block leaves no directory, no metadata file and no extracted
\* file; the error is raised only after that, and it is the error of the
\* failed step.
C3_RollbackThenRaise ==
    [][\A t \in Tasks :
          /\ (task[t].cause = "none" /\ task'[t].cause \in TrySteps)
                => task'[t].pc \in {"catch", "rethrow"}
          /\ (task[t].pc = "catch" /\ task'[t].pc # "catch") => task'[t].pc = "rethrow"
          /\ (task[t].pc # "rethrow" /\ task'[t].pc = "rethrow")
                => (fs' = AbsentDir /\ task'[t].cause \in TrySteps)
          /\ (task[t].result = "none" /\ task'[t].result = "raised"
                /\ task'[t].cause \in TrySteps)
                => (task[t].pc = "rethrow" /\ task'[t].err = task[t].cause
                    /\ task'[t].cause = task[t].cause)
      ]_vars

\* Extraction threw and the error has been raised over an absent directory.
C3_Witness ==
    /\ Solo(1)
    /\ task[1].result = "raised" /\ task[1].cause = "extract" /\ task[1].err = "extract"
    /\ task[1].snap = AbsentDir

\* The Version recorded in a version string `${version}-${release}`.
VersionOfStr(str) == Version(str[3], str[1])

\* C6: with the toggle unset, isUpdateNeeded() is true iff no local version is
\* recorded or the recorded version is not equal, by Version equality, to the
\* selected version.
C6_VersionEquality ==
    \A t \in Tasks :
        (task[t].upd # "unset" /\ ~skipEnv) =>
            (task[t].upd = "yes" <=>
                \/ task[t].cur = NoStr
                \/ ~equals(VersionOfStr(task[t].cur), task[t].sel.version))

\* An updater created over metadata of a supported release other than the
\* selected one.
Outdated(t) ==
    /\ task[t].kind = "update"
    /\ task[t].sel.set
    /\ task[t].cur # NoStr
    /\ isSupported(VersionOfStr(task[t].cur))
    /\ task[t].cur[3] # task[t].sel.version.release

\* C7 as claimed: for such an updater isUpdateNeeded() is true, and when
\* update() has returned the metadata file records the selected release.
C7_UpdateInstalls ==
    \A t \in Tasks :
        Outdated(t) =>
            /\ task[t].upd # "unset" => task[t].upd = "yes"
            /\ task[t].result = "returned" =>
                  /\ task[t].snap.meta # NoFile
                  /\ task[t].snap.meta[1].release = task[t].sel.version.release

\* C7 as amended: the same with the skip-download toggle unset.
C7_UpdateInstallsUnlessSkipped ==
    ~skipEnv => C7_UpdateInstalls

\* Installed 100.0, selected 110.0: update() has returned over metadata 110.0.
C7_Witness ==
    /\ ~skipEnv
    /\ Outdated(1)
    /\ task[1].cur[3] = <<100, 0>>
    /\ task[1].upd = "yes" /\ task[1].result = "returned"
    /\ task[1].snap.meta[1].release = <<110, 0>>

(***************************************************************************)
(* Properties of camoufoxPath.                                             *)
(***************************************************************************)
\* The directory is absent or empty.
MissingDir(d) == ~d.exists \/ (d.files = "none" /\ d.meta = NoFile)

\* The directory holds metadata of a version outside / inside the range.
UnsupportedDir(d) ==
    /\ d.exists /\ d.meta # NoFile
    /\ ~isSupported(Version(d.meta[1].release, d.meta[1].version))

SupportedDir(d) ==
    /\ d.exists /\ d.meta # NoFile
    /\ isSupported(Version(d.meta[1].release, d.meta[1].version))

\* The step starts exactly one install, which is before its first await.
StartsOneInstall ==
    \E t \in Tasks :
        /\ task[t].pc = "free"
        /\ task'[t].pc = "init" /\ task'[t].kind = "install" /\ task'[t].installing
        /\ task'[t].result = "none"
        /\ \A u \in Tasks \ {t} : task'[u] = task[u]

\* C11: a call of camoufoxPath(true) on an absent, empty or unsupported
\* install directory returns the directory with one install started and not
\* finished: the directory is, at the return, as it was before the call.
C11_ReturnsBeforeInstall ==
    [][(/\ CallCamoufoxPath
        /\ ret'.call = "camoufoxPath(true)"
        /\ MissingDir(fs) \/ UnsupportedDir(fs))
          => (/\ ret'.result = "returned" /\ ret'.started
              /\ StartsOneInstall
              /\ fs' = fs)
      ]_vars

\* camoufoxPath(true) has returned over an empty directory, its install pending.
C11_Witness ==
    /\ ret.call = "camoufoxPath(true)" /\ ret.result = "returned" /\ ret.started
    /\ fs = EmptyDir
    /\ task[1].kind = "install" /\ task[1].pc = "init" /\ task[1].result = "none"

\* C12: camoufoxPath(false) raises the not-found error on an absent or empty
\* directory and UnsupportedVersion on an unsupported installed version; it
\* starts no install, moves no pending call (no request) and leaves the
\* directory as it was.
C12_NoDownloadRaises ==
    [][(CallCamoufoxPath /\ ret'.call = "camoufoxPath(false)")
          => (/\ MissingDir(fs) => ret'.result = "raise:NotFound"
              /\ UnsupportedDir(fs) => ret'.result = "raise:UnsupportedVersion"
              /\ (MissingDir(fs) \/ UnsupportedDir(fs))
                    => (~ret'.started /\ task' = task /\ fs' = fs))
      ]_vars

\* camoufoxPath(false) has raised UnsupportedVersion over the installed 98.0.
C12_Witness ==
    /\ ret.call = "camoufoxPath(false)" /\ ret.result = "raise:UnsupportedVersion"
    /\ fs = InstalledDir("130.0", <<98, 0>>)
    /\ \A t \in Tasks : task[t].pc = "free"

\* C13: on a directory that holds a supported installed version, camoufoxPath
\* returns at once, whatever downloadIfMissing is: no install is started, no
\* pending call moves (no request) and the directory is left as it was.
C13_SupportedReturns ==
    [][(CallCamoufoxPath /\ SupportedDir(fs))
          => (/\ ret'.result = "returned" /\ ~ret'.started
              /\ task' = task
              /\ fs' = fs)
      ]_vars

\* camoufoxPath(true) has returned over the installed 110.0, nothing started.
C13_Witness ==
    /\ ret.call = "camoufoxPath(true)" /\ ret.result = "returned" /\ ~ret.started
    /\ fs = InstalledDir("135.0.1", <<110, 0>>)
    /\ \A t \in Tasks : task[t].pc = "free"

\* The directory makes camoufoxPath(true) return it: nothing is there, or a
\* version.json is.
Resolves(d) == MissingDir(d) \/ d.meta # NoFile

\* C14 as claimed: launchPath raises CamoufoxNotInstalled whenever the
\* executable is not on disk, and returns only when it is.
C14_NotInstalledWhenever ==
    ret.call = "launchPath" =>
        /\ ~ret.exe => ret.result = "raise:CamoufoxNotInstalled"
        /\ ret.result = "returned" => ret.exe

\* C14 as amended: when camoufoxPath(true) returns a directory and the
\* executable is not on disk, launchPath raises CamoufoxNotInstalled; when
\* camoufoxPath(true) raises, launchPath raises that error; launchPath returns
\* only when the executable is on disk.
C14_NotInstalledWhenResolved ==
    [][(LaunchPath /\ ret'.call = "launchPath")
          => (/\ (Resolves(fs) /\ ~ret'.exe)
                    => ret'.result = "raise:CamoufoxNotInstalled"
              /\ ~Resolves(fs) => ret'.result = "raise:FileNotFoundError"
              /\ ret'.result = "returned" => (ret'.exe /\ fs.exists /\ fs.files # "none")
              /\ fs' = fs)
      ]_vars

\* A supported version.json and no executable: resolution returned the
\* directory, nothing was started, and launchPath raised.
C14_Witness ==
    /\ ret.call = "launchPath" /\ ret.result = "raise:CamoufoxNotInstalled"
    /\ ~ret.exe /\ ~ret.started
    /\ fs = CorruptDir
    /\ \A t \in Tasks : task[t].pc = "free"

(***************************************************************************)
(* Properties of the resolver.                                             *)
(***************************************************************************)
\* C15: when the feed was fetched and none of its assets matches the platform
\* pattern with a supported version, the call raises MissingRelease and the
\* instance holds no selected version and no URL; MissingRelease is raised in
\* no other case.
C15_MissingRelease ==
    \A t \in Tasks :
        /\ (task[t].fetched /\ Candidates(feed) = {}) =>
              /\ task[t].result = "raised"
              /\ task[t].cause = "resolve" /\ task[t].err = "MissingRelease"
              /\ task[t].sel = NoSel
        /\ task[t].err = "MissingRelease" =>
              (task[t].fetched /\ Candidates(feed) = {})

\* The feed holds the unsupported 120.0 only; it was fetched, and install
\* raised MissingRelease.
C15_Witness ==
    /\ feed = FeedNone
    /\ task[1].kind = "install" /\ task[1].fetched
    /\ task[1].result = "raised" /\ task[1].err = "MissingRelease"
    /\ task[1].sel = NoSel

\* C16: once an instance holds a selection, no step of a later fetchLatest,
\* init or install on it queries the feed or changes the selected version or
\* URL.
C16_Memoized ==
    [][\A t \in Tasks :
          task[t].sel.set =>
              (task'[t].sel = task[t].sel /\ task'[t].queries = task[t].queries)
      ]_vars

\* An updater resolved its version in create(); the init() of its install
\* has passed without a second query.
C16_Witness ==
    /\ task[1].kind = "update" /\ task[1].installing
    /\ task[1].pc = "cleanup"
    /\ task[1].sel.set /\ task[1].queries = 1

\* C17: while the skip-download toggle is set, no feed query is issued and no
\* install (hence no download) is started, whatever is called.
C17_SkipSuppressesAll ==
    skipEnv => \A t \in Tasks : task[t].queries = 0 /\ ~task[t].installing

(***************************************************************************)
(* Properties of failure propagation and of the lifecycle of the install   *)
(* directory.                                                              *)
(***************************************************************************)
\* The errors of a feed query or a download that failed after its retries.
NetworkErrors == {"FetchFailed", "download"}

\* C21: a feed query or download that failed after its retries is raised to
\* the caller of the entry point: the failed call is one whose promise the
\* caller was given and awaits (create / update), not an install that
\* camoufoxPath or launchPath started and returned without.
C21_FailuresReachCaller ==
    \A t \in Tasks :
        (task[t].result = "raised" /\ task[t].err \in NetworkErrors)
            => task[t].kind = "update"

\* C23: during an install on an absent directory that no step of which fails,
\* with no other install on the directory, the directory is never seen
\* existing but empty, nor holding a part of the files.
C23_NeverPartiallyPopulated ==
    \A t \in Tasks :
        (/\ task[t].installing /\ Solo(t)
         /\ ~fs0.exists
         /\ task[t].cause = "none")
            => (fs.exists => fs.files = "full")

\* C28: one call of launchPath or of camoufoxPath(true) starts at most one
\* install, and the recheck after an install that ran alone starts none.
C28_AtMostOneInstall ==
    [][/\ (LaunchPath \/ CallCamoufoxPath)
            => Cardinality({t \in Tasks : task[t].pc = "free" /\ task'[t].pc # "free"}) <= 1
       /\ \A t \in Tasks :
            (task[t].pc = "recheck" /\ task'[t].pc = "done" /\ Solo(t))
                => \A u \in Tasks \ {t} : task'[u].pc = "free"
      ]_vars

\* The metadata file is there only over completely extracted files.
MetaImpliesExtracted(d) == d.meta # NoFile => (d.exists /\ d.files = "full")

C26_NoMutualExclusion ==
    [][(/\ CallCamoufoxPath
        /\ ret'.call = "camoufoxPath(true)"
        /\ MissingDir(fs) \/ UnsupportedDir(fs)
        /\ \E u \in Tasks : task[u].pc \notin {"free", "done"})
          => (ret'.result = "returned" /\ ret'.started /\ StartsOneInstall)
      ]_vars

\* Two installs started by camoufoxPath(true) on an absent directory: the
\* first has extracted its files, then the cleanup of the second removed them.
C26_Witness ==
    /\ ~fs0.exists
    /\ task[1].kind = "install" /\ task[2].kind = "install"
    /\ task[1].pc = "setver"
    /\ task[2].pc = "mkdir"
    /\ fs = AbsentDir

\* The directory holds files and no version.json.
NoMetaDir(d) == d.exists /\ d.files # "none" /\ d.meta = NoFile

\* C27 as claimed: camoufoxPath(true) on a non-empty directory without
\* metadata file starts an install and returns the directory.
C27_NoMetadataInstalls ==
    [][(CallCamoufoxPath /\ ret'.call = "camoufoxPath(true)" /\ NoMetaDir(fs))
          => (ret'.result = "returned" /\ ret'.started /\ StartsOneInstall)
      ]_vars

\* C27 as amended: camoufoxPath, with either value of downloadIfMissing, on a
\* non-empty directory without metadata file raises FileNotFoundError; it
\* starts no install and leaves the directory as it was.
C27_NoMetadataRaises ==
    [][(CallCamoufoxPath /\ NoMetaDir(fs))
          => (/\ ret'.result = "raise:FileNotFoundError" /\ ~ret'.started
              /\ task' = task
              /\ fs' = fs)
      ]_vars

\* camoufoxPath(true) has raised over stray files, nothing started.
C27_Witness ==
    /\ ret.call = "camoufoxPath(true)" /\ ret.result = "raise:FileNotFoundError"
    /\ fs = StrayDir
    /\ \A t \in Tasks : task[t].pc = "free"

\* C29: when release resolution fails in install (the feed query failed
\* after its retries, or MissingRelease), the step that raises leaves the
\* directory as it is, and an install that ran alone has raised over the
\* directory as it was before the call.
C29_ResolutionFailureKeepsDir ==
    /\ [](\A t \in Tasks :
            (task[t].installing /\ task[t].result = "raised" /\ task[t].cause = "resolve")
                => /\ task[t].err \in {"FetchFailed", "MissingRelease"}
                   /\ Solo(t) => (task[t].snap = fs0 /\ fs = fs0))
    /\ [][\A t \in Tasks :
            (task[t].cause = "none" /\ task'[t].cause = "resolve")
                => (fs' = fs /\ task'[t].snap = fs)
         ]_vars

\* The unsupported 98.0 was to be replaced; the feed could not be fetched,
\* and the installed files and metadata are still there.
C29_Witness ==
    /\ Solo(1)
    /\ fs0 = InstalledDir("130.0", <<98, 0>>)
    /\ task[1].installing /\ task[1].result = "raised"
    /\ task[1].cause = "resolve" /\ task[1].err = "FetchFailed"
    /\ fs = fs0

\* Both calls have run install, and both have finished.
BothFinished == \A t \in Tasks : task[t].installing /\ task[t].pc = "done"

\* C30 as claimed: once two installs on the directory have both finished
\* and one of them returned, the directory holds a complete install with its
\* metadata file.
C30_OneSuccessSuffices ==
    (BothFinished /\ \E t \in Tasks : task[t].result = "returned") => Populated(fs)

\* C30 as amended: once two installs on the directory (and no third) have
\* both finished and both returned, the directory holds a complete install
\* with the metadata file of the selected release.
C30_BothSucceeded ==
    (BothFinished /\ \A t \in Tasks : task[t].result = "returned")
        => /\ Populated(fs)
           /\ fs.meta[1].version = Selected.version.version
           /\ fs.meta[1].release = Selected.version.release

\* Two installs overlapped on an absent directory, both returned, and the
\* directory holds the selected 110.0.
C30_Witness ==
    /\ BothFinished
    /\ \A t \in Tasks : task[t].kind = "install" /\ task[t].result = "returned"
    /\ ~fs0.exists
    /\ Populated(fs) /\ fs.meta[1].release = <<110, 0>>

(***************************************************************************)
(* SpecPlatform: the module's OS check, the CamoufoxFetcher constructor    *)
(* (getPlatformArch), the feed query and checkAsset on one asset.  The     *)
(* record is kept in res.                                                  *)
(***************************************************************************)
ARCH_MAP == [x64 |-> "x86_64", ia32 |-> "i686", arm64 |-> "arm64", arm |-> "arm64"]
OS_MAP == [darwin |-> "mac", linux |-> "lin", win32 |-> "win"]
OS_ARCH_MATRIX ==
    [win |-> {"x86_64", "i686"},
     mac |-> {"x86_64", "arm64"},
     lin |-> {"x86_64", "arm64", "i686"}]

\* Values of process.platform and of os.arch().
ProcessPlatforms == {"darwin", "linux", "win32", "freebsd", "aix"}
OsArchs == {"x64", "ia32", "arm64", "arm", "ppc64", "riscv64"}

\* Mutant: the mapped architecture is not checked against the OS.
getPlatformArchNoMatrix(osName, platArch) ==
    IF platArch \notin DOMAIN ARCH_MAP
    THEN [ok |-> FALSE, arch |-> "", err |-> "UnsupportedArchitecture"]
    ELSE [ok |-> TRUE, arch |-> ARCH_MAP[platArch], err |-> "none"]

\* CamoufoxFetcher.getPlatformArch
getPlatformArch(osName, platArch) ==
    IF platArch \notin DOMAIN ARCH_MAP
    THEN [ok |-> FALSE, arch |-> "", err |-> "UnsupportedArchitecture"]
    ELSE IF ARCH_MAP[platArch] \notin OS_ARCH_MATRIX[osName]
    THEN [ok |-> FALSE, arch |-> "", err |-> "UnsupportedArchitecture"]
    ELSE [ok |-> TRUE, arch |-> ARCH_MAP[platArch], err |-> "none"]

\* Assets of every OS and architecture, of a supported and of an unsupported
\* release.
PlatformAssets ==
    { [name |-> [product |-> "camoufox", version |-> "135.0.1", release |-> r,
                 os |-> o, arch |-> a, ext |-> "zip"],
       browser_download_url |-> "url"] :
        r \in {<<110, 0>>, <<120, 0>>}, o \in {"mac", "win", "lin"},
        a \in {"x86_64", "i686", "arm64"} }

InitPlatform ==
    /\ ra = <<0>> /\ rb = <<0>> /\ rc = <<0>>
    /\ ord = NoOrd
    /\ rt = NoRetry
    /\ feed = NoFeed
    /\ MainOff
    /\ \E p \in ProcessPlatforms, a \in OsArchs :
          res = [pc |-> "start", platform |-> p, osArch |-> a, osName |-> "", arch |-> "",
                 err |-> "none", requests |-> 0, asset |-> NoData, data |-> NoData]

\* if (!(process.platform in OS_MAP)) throw new UnsupportedOS(...); OS_NAME
LoadModule ==
    /\ res.pc = "start"
    /\ res' = IF res.platform \notin DOMAIN OS_MAP
              THEN [res EXCEPT !.pc = "failed", !.err = "UnsupportedOS"]
              ELSE [res EXCEPT !.pc = "loaded", !.osName = OS_MAP[res.platform]]
    /\ UNCHANGED <<ra, rb, rc, ord, rt, feed, mainVars>>

\* new CamoufoxFetcher(): super(...), this.arch = getPlatformArch(), pattern
Construct ==
    /\ res.pc = "loaded"
    /\ LET g == getPlatformArch(res.osName, res.osArch)
       IN res' = IF g.ok THEN [res EXCEPT !.pc = "constructed", !.arch = g.arch]
                 ELSE [res EXCEPT !.pc = "failed", !.err = g.err]
    /\ UNCHANGED <<ra, rb, rc, ord, rt, feed, mainVars>>

\* init(): getAsset sends the feed query.
QueryFeed ==
    /\ res.pc = "constructed"
    /\ res' = [res EXCEPT !.pc = "queried", !.requests = 1]
    /\ UNCHANGED <<ra, rb, rc, ord, rt, feed, mainVars>>

\* this.checkAsset(asset), on an asset of the feed
CheckAsset ==
    /\ res.pc = "queried"
    /\ \E a \in PlatformAssets :
          res' = [res EXCEPT !.pc = "checked", !.asset = a,
                             !.data = checkAsset(a, res.osName, res.arch)]
    /\ UNCHANGED <<ra, rb, rc, ord, rt, feed, mainVars>>

NextPlatform == LoadModule \/ Construct \/ QueryFeed \/ CheckAsset

SpecPlatform == InitPlatform /\ [][NextPlatform]_vars

\* The pairs (process.platform, os.arch()) a fetcher can be constructed on.
SupportedPlatforms ==
    {<<"darwin", "x64">>, <<"darwin", "arm64">>, <<"darwin", "arm">>,
     <<"linux", "x64">>, <<"linux", "ia32">>, <<"linux", "arm64">>, <<"linux", "arm">>,
     <<"win32", "x64">>, <<"win32", "ia32">>}

\* C18: on an OS without a mapping entry the module load raises UnsupportedOS
\* and no fetcher is constructed; on a mapped OS, an architecture without a
\* mapping entry or not offered for the OS makes the constructor raise
\* UnsupportedArchitecture; in both cases no request has been issued, and a
\* request is issued only by a fetcher of a supported pair.
C18_FailFast ==
    /\ res.pc \notin {"start"} =>
          (res.err = "UnsupportedOS" <=> res.platform \notin {"darwin", "linux", "win32"})
    /\ res.pc \notin {"start", "loaded"} =>
          (res.err = "UnsupportedArchitecture" <=>
              /\ res.platform \in {"darwin", "linux", "win32"}
              /\ <<res.platform, res.osArch>> \notin SupportedPlatforms)
    /\ res.err # "none" => (res.pc = "failed" /\ res.requests = 0 /\ res.arch = "")
    /\ res.requests > 0 => <<res.platform, res.osArch>> \in SupportedPlatforms

\* arm64 on win: the constructor raised, nothing was requested.
C18_Witness ==
    /\ res.platform = "win32" /\ res.osArch = "arm64"
    /\ res.pc = "failed" /\ res.err = "UnsupportedArchitecture"
    /\ res.requests = 0

\* C19: checkAsset returns no match for an asset whose OS or architecture part
\* is not the platform's mapped OS and architecture name, whatever its version.
C19_RejectsOtherPlatform ==
    res.pc = "checked" =>
        ((res.asset.name.os # res.osName \/ res.asset.name.arch # res.arch)
            => ~res.data.match)

\* On lin.x86_64, the mac.x86_64 asset of the supported 110.0 was rejected.
C19_Witness ==
    /\ res.pc = "checked"
    /\ res.osName = "lin" /\ res.arch = "x86_64"
    /\ res.asset.name.os = "mac" /\ res.asset.name.arch = "x86_64"
    /\ res.asset.name.release = <<110, 0>>
    /\ ~res.data.match

(***************************************************************************)
(* SpecCleanup: CamoufoxFetcher.cleanup called twice in a row on one       *)
(* directory.  What each call returned and left is kept in ord.            *)
(***************************************************************************)
CleanupDirs ==
    {AbsentDir, EmptyDir, CorruptDir, StrayDir,
     [exists |-> TRUE, files |-> "full", meta |-> NoFile]}
    \cup {InstalledDir(v, r) : v \in DisplayStrings, r \in Releases(RangeComps, 1)}

InitCleanup ==
    /\ ra = <<0>> /\ rb = <<0>> /\ rc = <<0>>
    /\ ord = [done |-> FALSE, returned |-> <<>>, dirs |-> <<>>]
    /\ rt = NoRetry
    /\ feed = NoFeed /\ res = NoRes
    /\ skipEnv = FALSE /\ task = <<>> /\ ret = <<>>
    /\ fs \in CleanupDirs
    /\ fs0 = fs

CleanupCall ==
    /\ Len(ord.returned) < 2
    /\ LET c == cleanup(fs)
       IN /\ fs' = c.dir
          /\ ord' = [ord EXCEPT !.returned = Append(@, c.removed),
                                !.dirs = Append(@, c.dir)]
    /\ UNCHANGED <<ra, rb, rc, rt, feed, res, skipEnv, task, ret, fs0>>

NextCleanup == CleanupCall

SpecCleanup == InitCleanup /\ [][NextCleanup]_vars

\* C20: cleanup returns true and leaves the directory absent when it existed,
\* returns false and leaves everything as it was when it did not; a second
\* cleanup right after returns false and leaves the same state.
C20_CleanupIdempotent ==
    /\ Len(ord.returned) >= 1 =>
          /\ ord.returned[1] = fs0.exists
          /\ fs0.exists => ord.dirs[1] = AbsentDir
          /\ ~fs0.exists => ord.dirs[1] = fs0
    /\ Len(ord.returned) >= 2 =>
          /\ ord.returned[2] = FALSE
          /\ ord.dirs[2] = ord.dirs[1]
          /\ fs = ord.dirs[1]

\* An installed copy was removed by the first call; the second found nothing.
C20_Witness ==
    /\ fs0 = InstalledDir("135.0.1", <<100, 0>>)
    /\ ord.returned = <<TRUE, FALSE>>
    /\ fs = AbsentDir

(***************************************************************************)
(* SpecMeta: setVersion for a selected version, then Version.fromPath.     *)
(***************************************************************************)
InitMeta ==
    /\ ra \in Releases(RangeComps, MaxNonZero)
    /\ rb = <<0>> /\ rc = <<0>>
    /\ ord = NoOrd
    /\ rt = NoRetry
    /\ feed = NoFeed /\ res = NoRes
    /\ skipEnv = FALSE /\ task = <<>> /\ ret = <<>>
    /\ fs \in {AbsentDir, EmptyDir, InstalledDir("134.0", <<100, 0>>)}
    /\ fs0 = fs

WriteThenRead ==
    /\ ord.done = FALSE
    /\ \E v \in DisplayStrings :
          LET w == setVersion(fs, [set |-> TRUE, version |-> Version(ra, v), url |-> "url"])
          IN /\ fs' = w.dir
             /\ ord' = [done |-> TRUE, wrote |-> w.ok, display |-> v,
                        back |-> fromPath(w.dir)]
    /\ UNCHANGED <<ra, rb, rc, rt, feed, res, skipEnv, task, ret, fs0>>

NextMeta == WriteThenRead

SpecMeta == InitMeta /\ [][NextMeta]_vars

\* C10: when setVersion wrote the metadata of version V, fromPath reads a
\* Version equal to V by Version equality, with the release and display
\* strings of V.
C10_RoundTrip ==
    (ord.done /\ ord.wrote) =>
        /\ ord.back.ok
        /\ equals(ord.back.version, Version(ra, NoVersion))
        /\ ord.back.version.release = ra
        /\ ord.back.version.version = ord.display

\* Metadata of 100.0 was overwritten with a release padded on reading.
C10_Witness ==
    /\ ord.done /\ ord.wrote
    /\ fs0 = InstalledDir("134.0", <<100, 0>>)
    /\ ra = <<119, 1>>
    /\ ord.back.ok
    /\ ord.back.version.sorted_rel = <<119, 1, 0, 0, 0>>

=============================================================================
